---- MODULE Spec2Model ----
(***************************************************************************)
(* Model of the LoveAdmin / FA Club Portal reconciler:                     *)
(*   scripts/loveadmin_fa_reconcile.py      (command line, merge_datasets) *)
(*   scripts/loveadmin_fa_reconcile_gui.py  (GUI, validate_and_merge)      *)
(*                                                                         *)
(* A spreadsheet is a sequence of rows, a row a sequence of cells, a cell  *)
(* a string.  A DataFrame is [columns, rows], every row as long as         *)
(* columns.  The pandas calls (read_excel, rename, merge, fillna,          *)
(* to_excel) are operators that compute what the call computes.            *)
(***************************************************************************)
EXTENDS Integers, Sequences, FiniteSets, TLC

VARIABLES
    program,                  \* "cli" or "gui": which script was started
    pc,                       \* "start" | "mainloop" | "exited"
    files,                    \* the disk: path -> [exists, writable, sheet]
    loveadmin_file_var,       \* tk.StringVar, GUI
    fa_club_portal_file_var,  \* tk.StringVar, GUI
    output_file_var,          \* tk.StringVar, GUI
    last,                     \* the operation that ran last
    dialogs,                  \* modal dialogs shown by the last operation
    log,                      \* log records emitted by the last operation
    reads,                    \* paths opened for reading by the last operation
    writes,                   \* paths written by the last operation
    caught,                   \* exception the last operation's except clause caught
    raised,                   \* exception that left the last operation
    exit_code                 \* process exit status, -1 while running

vars == <<program, pc, files, loveadmin_file_var, fa_club_portal_file_var,
          output_file_var, last, dialogs, log, reads, writes, caught,
          raised, exit_code>>

----------------------------------------------------------------------------
(* Bounds *)

\* data rows of a spreadsheet on disk when the command-line script starts
MaxRows == 2

\* data rows of a spreadsheet on disk when the GUI starts
MaxGuiRows == 1

----------------------------------------------------------------------------
(* Program constants *)

loveadmin_file == "Data export 20250124-162359.xlsx"
fa_club_portal_file == "Wilpshire Wanderers_RegistrationReport_24012025.xlsx"
output_file == "Merged_LoveAdmin_FA_Club_Portal.xlsx"

SkipRows == 6

MergeOn == <<"First names", "Surname">>

PreferredColumns ==
    <<"First names", "Surname", "In_LoveAdmin", "In_FA_Club_Portal",
      "Team", "Active mandates">>

----------------------------------------------------------------------------
(* Cells and sequences *)

NaN == "NaN"
TrueCell == "True"
FalseCell == "False"

Range(s) == {s[i] : i \in 1..Len(s)}

Contains(s, x) == \E i \in 1..Len(s) : s[i] = x

IndexOf(s, x) == CHOOSE i \in 1..Len(s) : s[i] = x /\ \A j \in 1..(i-1) : s[j] # x

Occurrences(s, x) == Cardinality({i \in 1..Len(s) : s[i] = x})

RECURSIVE Flatten(_)
Flatten(ss) == IF Len(ss) = 0 THEN <<>> ELSE Head(ss) \o Flatten(Tail(ss))

SeqsUpTo(S, n) == UNION {[1..m -> S] : m \in 0..n}

Digits == <<"0", "1", "2", "3", "4", "5", "6", "7", "8", "9">>

----------------------------------------------------------------------------
(* Exceptions *)

NoExc == [type |-> "None", msg |-> ""]

Exc(t, m) == [type |-> t, msg |-> m]

\* str(e) of a KeyError is the repr of its key
KeyError(k) == Exc("KeyError", "'" \o k \o "'")

----------------------------------------------------------------------------
(* pandas.read_excel(path, skiprows=n) *)

EmptyFrame == [columns |-> <<>>, rows |-> <<>>]

\* an empty header cell is named "Unnamed: <position>"
HeaderName(row, i) == IF row[i] = NaN THEN "Unnamed: " \o Digits[i] ELSE row[i]

read_excel(fs, path, skiprows) ==
    IF path \notin DOMAIN fs \/ ~fs[path].exists
    THEN [exc |-> Exc("FileNotFoundError",
                      "[Errno 2] No such file or directory: '" \o path \o "'"),
          df |-> EmptyFrame]
    ELSE LET sheet == fs[path].sheet
             body == IF Len(sheet) <= skiprows THEN <<>>
                     ELSE SubSeq(sheet, skiprows + 1, Len(sheet))
         IN  IF Len(body) = 0
             THEN [exc |-> NoExc, df |-> EmptyFrame]
             ELSE [exc |-> NoExc,
                   df |-> [columns |-> [i \in 1..Len(body[1]) |-> HeaderName(body[1], i)],
                           rows |-> Tail(body)]]

----------------------------------------------------------------------------
(* DataFrame operations *)

\* df.rename(columns=mapping): labels outside the mapping are kept
rename(df, from, to) ==
    [df EXCEPT !.columns =
        [i \in 1..Len(df.columns) |->
            IF Contains(from, df.columns[i])
            THEN to[IndexOf(from, df.columns[i])]
            ELSE df.columns[i]]]

\* df[name] = value: overwrite the column, or append it when it is new
SetColumn(df, name, value) ==
    IF Contains(df.columns, name)
    THEN [df EXCEPT !.rows =
            [r \in 1..Len(df.rows) |->
                [c \in 1..Len(df.columns) |->
                    IF df.columns[c] = name THEN value ELSE df.rows[r][c]]]]
    ELSE [columns |-> Append(df.columns, name),
          rows |-> [r \in 1..Len(df.rows) |-> Append(df.rows[r], value)]]

\* fillna that fills with True whatever value is asked for
fillnaTrue(cell, value) == IF cell = NaN THEN TrueCell ELSE cell

\* fillna left out: the cell stays as the join produced it
fillnaSkipped(cell, value) == cell

\* series.fillna(value)
fillna(cell, value) == IF cell = NaN THEN value ELSE cell

\* df[name] = df[name].fillna(value), for a label df has
FillColumn(df, name, value) ==
    [df EXCEPT !.rows =
        [r \in 1..Len(df.rows) |->
            [c \in 1..Len(df.columns) |->
                IF df.columns[c] = name
                THEN fillna(df.rows[r][c], value)
                ELSE df.rows[r][c]]]]

\* the values of a row under the join key
KeyOf(df, row, on) == [i \in 1..Len(on) |-> row[IndexOf(df.columns, on[i])]]

KeysOf(df, on) == {KeyOf(df, df.rows[r], on) : r \in 1..Len(df.rows)}

RowsWithKey(df, on, k) == SelectSeq(df.rows, LAMBDA row : KeyOf(df, row, on) = k)

\* lexicographic order of the key cells, missing values last
CellOrder == <<"Fox", "Jo", "Lee", "Sam", NaN>>

Rank(c) == IF Contains(CellOrder, c) THEN IndexOf(CellOrder, c) ELSE Len(CellOrder) + 1

RECURSIVE KeyLess(_, _)
KeyLess(k1, k2) ==
    IF Len(k1) = 0 \/ Len(k2) = 0 THEN FALSE
    ELSE \/ Rank(Head(k1)) < Rank(Head(k2))
         \/ Rank(Head(k1)) = Rank(Head(k2)) /\ KeyLess(Tail(k1), Tail(k2))

RECURSIVE SortedKeys(_)
SortedKeys(S) ==
    IF S = {} THEN <<>>
    ELSE LET m == CHOOSE k \in S : \A o \in S : ~KeyLess(o, k)
         IN  <<m>> \o SortedKeys(S \ {m})

\* first problem pandas finds with the join labels, NoExc when there is none
MergeKeyError(left, right, on) ==
    LET bad == {i \in 1..Len(on) :
                   \/ ~Contains(left.columns, on[i])
                   \/ ~Contains(right.columns, on[i])
                   \/ Occurrences(left.columns, on[i]) > 1
                   \/ Occurrences(right.columns, on[i]) > 1}
    IN  IF bad = {} THEN NoExc
        ELSE LET i == CHOOSE i \in bad : \A j \in bad : i <= j
             IN  IF ~Contains(left.columns, on[i]) \/ ~Contains(right.columns, on[i])
                 THEN KeyError(on[i])
                 ELSE Exc("ValueError",
                          "The column label '" \o on[i] \o "' is not unique.")

\* matching rows paired by position instead of every left with every right
BothRowsZip(L, R, rightRest) ==
    [i \in 1..(IF Len(L) < Len(R) THEN Len(L) ELSE Len(R)) |->
        L[i] \o [c \in 1..Len(rightRest) |-> R[i][rightRest[c]]]]

\* the key k matches on both sides: every left row with every right row
BothRows(L, R, rightRest) ==
    Flatten([i \in 1..Len(L) |->
                [j \in 1..Len(R) |->
                    L[i] \o [c \in 1..Len(rightRest) |-> R[j][rightRest[c]]]]])

\* the key k is on the left only: the right columns are missing
LeftOnlyRows(L, rightRest) ==
    [i \in 1..Len(L) |-> L[i] \o [c \in 1..Len(rightRest) |-> NaN]]

\* the key k is on the right only: the left columns other than the key are missing
RightOnlyRows(R, left, right, on, rightRest) ==
    [j \in 1..Len(R) |->
        [c \in 1..Len(left.columns) |->
            IF Contains(on, left.columns[c])
            THEN R[j][IndexOf(right.columns, left.columns[c])]
            ELSE NaN]
        \o [c \in 1..Len(rightRest) |-> R[j][rightRest[c]]]]

\* how="left": a key the left frame lacks gives no row
JoinRowsLeft(left, right, on, k, rightRest) ==
    LET L == RowsWithKey(left, on, k)
        R == RowsWithKey(right, on, k)
    IN  IF Len(L) > 0 /\ Len(R) > 0 THEN BothRows(L, R, rightRest)
        ELSE IF Len(L) > 0 THEN LeftOnlyRows(L, rightRest)
        ELSE <<>>

JoinRows(left, right, on, k, rightRest) ==
    LET L == RowsWithKey(left, on, k)
        R == RowsWithKey(right, on, k)
    IN  IF Len(L) > 0 /\ Len(R) > 0 THEN BothRows(L, R, rightRest)
        ELSE IF Len(L) > 0 THEN LeftOnlyRows(L, rightRest)
        ELSE RightOnlyRows(R, left, right, on, rightRest)

\* pd.merge(left, right, on=on, how="outer"), for labels MergeKeyError accepts
merge(left, right, on) ==
    LET rightRest == SelectSeq([i \in 1..Len(right.columns) |-> i],
                               LAMBDA i : ~Contains(on, right.columns[i]))
        leftCols == [c \in 1..Len(left.columns) |->
                        IF ~Contains(on, left.columns[c])
                           /\ Contains(right.columns, left.columns[c])
                        THEN left.columns[c] \o "_x"
                        ELSE left.columns[c]]
        rightCols == [c \in 1..Len(rightRest) |->
                        IF Contains(left.columns, right.columns[rightRest[c]])
                        THEN right.columns[rightRest[c]] \o "_y"
                        ELSE right.columns[rightRest[c]]]
        keys == SortedKeys(KeysOf(left, on) \cup KeysOf(right, on))
    IN  [columns |-> leftCols \o rightCols,
         rows |-> Flatten([n \in 1..Len(keys) |->
                            JoinRows(left, right, on, keys[n], rightRest)])]

\* df.to_excel(path, index=False): the header row, then the data rows
to_excel(df) == <<df.columns>> \o df.rows

----------------------------------------------------------------------------
(* Logging and dialogs *)

Info(m) == [level |-> "INFO", msg |-> m]
Debug(m) == [level |-> "DEBUG", msg |-> m]
Error(m) == [level |-> "ERROR", msg |-> m]

showerror(title, message) == [kind |-> "showerror", title |-> title, message |-> message]
showinfo(title, message) == [kind |-> "showinfo", title |-> title, message |-> message]

\* the file a successful to_excel leaves at the path
Written(fs, path, df) ==
    [fs EXCEPT ![path] = [exists |-> TRUE, writable |-> TRUE, sheet |-> to_excel(df)]]

CanWrite(fs, path) == path \in DOMAIN fs /\ fs[path].writable

WriteError(path) ==
    Exc("PermissionError", "[Errno 13] Permission denied: '" \o path \o "'")

----------------------------------------------------------------------------
(* loveadmin_fa_reconcile.py *)

\* an except clause that logs the error and returns normally
MergeDatasetsExceptSwallow(fs, lg, rd, e) ==
    [fs |-> fs,
     log |-> Append(lg, Error("An error occurred during the merge process: " \o e.msg)),
     reads |-> rd,
     writes |-> <<>>,
     raised |-> NoExc]

\* the except clause of merge_datasets: log the error, raise it again
MergeDatasetsExcept(fs, lg, rd, e) ==
    [fs |-> fs,
     log |-> Append(lg, Error("An error occurred during the merge process: " \o e.msg)),
     reads |-> rd,
     writes |-> <<>>,
     raised |-> e]

merge_datasets(fs, loveadmin_path, fa_club_portal_path, output_path) ==
    LET lg1 == <<Info("Loading LoveAdmin data...")>>
        ra == read_excel(fs, loveadmin_path, 0)
        lg2 == Append(lg1, Info("Loading FA Club Portal data..."))
        rb == read_excel(fs, fa_club_portal_path, SkipRows)
        rd == <<loveadmin_path, fa_club_portal_path>>
        lg3 == Append(lg2, Debug("Renaming columns for standardisation..."))
        loveadmin_data ==
            SetColumn(rename(ra.df, <<"Last name", "First name">>,
                                    <<"Surname", "First names">>),
                      "In_LoveAdmin", TrueCell)
        lg4 == Append(lg3, Debug("Adding presence flags..."))
        fa_club_portal_data == SetColumn(rb.df, "In_FA_Club_Portal", TrueCell)
        lg5 == Append(lg4, Info("Merging datasets..."))
        me == MergeKeyError(loveadmin_data, fa_club_portal_data, MergeOn)
        merged == merge(loveadmin_data, fa_club_portal_data, MergeOn)
        lg6 == Append(lg5, Debug("Filling NaN values for presence flags..."))
        filledA == FillColumn(merged, "In_LoveAdmin", FalseCell)
        merged_data == FillColumn(filledA, "In_FA_Club_Portal", FalseCell)
        lg7 == Append(lg6, Info("Saving merged data to " \o output_path \o "..."))
    IN  IF ra.exc # NoExc THEN MergeDatasetsExcept(fs, lg1, <<loveadmin_path>>, ra.exc)
        ELSE IF rb.exc # NoExc THEN MergeDatasetsExcept(fs, lg2, rd, rb.exc)
        ELSE IF me # NoExc THEN MergeDatasetsExcept(fs, lg5, rd, me)
        ELSE IF ~Contains(merged.columns, "In_LoveAdmin")
             THEN MergeDatasetsExcept(fs, lg6, rd, KeyError("In_LoveAdmin"))
        ELSE IF ~Contains(merged.columns, "In_FA_Club_Portal")
             THEN MergeDatasetsExcept(fs, lg6, rd, KeyError("In_FA_Club_Portal"))
        ELSE IF ~CanWrite(fs, output_path)
             THEN MergeDatasetsExcept(fs, lg7, rd, WriteError(output_path))
        ELSE [fs |-> Written(fs, output_path, merged_data),
              log |-> Append(lg7, Info("Merge process completed successfully.")),
              reads |-> rd,
              writes |-> <<output_path>>,
              raised |-> NoExc]

----------------------------------------------------------------------------
(* loveadmin_fa_reconcile_gui.py *)

\* the list built at "Reordering columns...": the comprehension tests
\* "col not in columns_order" while columns_order is still unbound, so the
\* first column of merged_data raises NameError
ColumnsOrder(columns) ==
    IF Len(columns) > 0
    THEN [exc |-> Exc("NameError",
                      "cannot access free variable 'columns_order' where it is "
                      \o "not associated with a value in enclosing scope"),
          order |-> <<>>]
    ELSE [exc |-> NoExc, order |-> PreferredColumns]

\* merged_data[columns_order]: every label must be a column
SelectColumns(df, order) ==
    LET missing == SelectSeq(order, LAMBDA c : ~Contains(df.columns, c))
    IN  IF Len(missing) > 0
        THEN [exc |-> KeyError(missing[1] \o " not in index"), df |-> df]
        ELSE [exc |-> NoExc,
              df |-> [columns |-> order,
                      rows |-> [r \in 1..Len(df.rows) |->
                                  [c \in 1..Len(order) |->
                                      df.rows[r][IndexOf(df.columns, order[c])]]]]]

\* the check passes unless all three paths are empty
PathsMissingAll(loveadmin_path, fa_club_portal_path, output_path) ==
    loveadmin_path = "" /\ fa_club_portal_path = "" /\ output_path = ""

\* "not loveadmin_file or not fa_club_portal_file or not output_file"
PathsMissing(loveadmin_path, fa_club_portal_path, output_path) ==
    loveadmin_path = "" \/ fa_club_portal_path = "" \/ output_path = ""

\* a run that opened the output before its steps: a failure leaves it empty
ValidateAndMergeExceptPartial(fs, lg, rd, e) ==
    [fs |-> IF rd # <<>> /\ output_file \in DOMAIN fs
            THEN [fs EXCEPT ![output_file] =
                    [exists |-> TRUE, writable |-> TRUE, sheet |-> <<>>]]
            ELSE fs,
     log |-> Append(lg, Error("An error occurred: " \o e.msg)),
     reads |-> rd,
     writes |-> <<>>,
     caught |-> e,
     dialogs |-> <<showerror("Error", "An error occurred: " \o e.msg)>>]

\* the except clause of validate_and_merge: log the error, show it
ValidateAndMergeExcept(fs, lg, rd, e) ==
    [fs |-> fs,
     log |-> Append(lg, Error("An error occurred: " \o e.msg)),
     reads |-> rd,
     writes |-> <<>>,
     caught |-> e,
     dialogs |-> <<showerror("Error", "An error occurred: " \o e.msg)>>]

ValidateAndMergeRun(fs, loveadmin_path, fa_club_portal_path, output_path) ==
    LET lg1 == <<Info("Loading LoveAdmin data...")>>
        ra == read_excel(fs, loveadmin_path, 0)
        lg2 == Append(lg1, Info("Loading FA Club Portal data..."))
        rb == read_excel(fs, fa_club_portal_path, SkipRows)
        rd == <<loveadmin_path, fa_club_portal_path>>
        lg3 == Append(lg2, Debug("Renaming columns for standardisation..."))
        loveadmin_data ==
            SetColumn(rename(ra.df, <<"Last name", "First name">>,
                                    <<"Surname", "First names">>),
                      "In_LoveAdmin", TrueCell)
        lg4 == Append(lg3, Debug("Adding presence flags..."))
        fa_club_portal_data == SetColumn(rb.df, "In_FA_Club_Portal", TrueCell)
        lg5 == Append(lg4, Info("Merging datasets..."))
        me == MergeKeyError(loveadmin_data, fa_club_portal_data, MergeOn)
        merged == merge(loveadmin_data, fa_club_portal_data, MergeOn)
        lg6 == Append(lg5, Debug("Filling NaN values for presence flags..."))
        filledA == FillColumn(merged, "In_LoveAdmin", FalseCell)
        filled == FillColumn(filledA, "In_FA_Club_Portal", FalseCell)
        lg7 == Append(lg6, Debug("Reordering columns..."))
        co == ColumnsOrder(filled.columns)
        sel == SelectColumns(filled, co.order)
        lg8 == Append(lg7, Info("Saving merged data to " \o output_path \o "..."))
    IN  IF PathsMissing(loveadmin_path, fa_club_portal_path, output_path)
        THEN [fs |-> fs, log |-> <<>>, reads |-> <<>>, writes |-> <<>>,
              caught |-> NoExc,
              dialogs |-> <<showerror("Error", "Please select all required files.")>>]
        ELSE IF ra.exc # NoExc
             THEN ValidateAndMergeExcept(fs, lg1, <<loveadmin_path>>, ra.exc)
        ELSE IF rb.exc # NoExc THEN ValidateAndMergeExcept(fs, lg2, rd, rb.exc)
        ELSE IF ~Contains(ra.df.columns, "Last name") \/ ~Contains(ra.df.columns, "First name")
             THEN ValidateAndMergeExcept(fs, lg2, rd,
                    Exc("ValueError", "LoveAdmin file does not contain required "
                                      \o "columns: 'Last name', 'First name'."))
        ELSE IF ~Contains(rb.df.columns, "First names") \/ ~Contains(rb.df.columns, "Surname")
             THEN ValidateAndMergeExcept(fs, lg2, rd,
                    Exc("ValueError", "FA Club Portal file does not contain required "
                                      \o "columns: 'First names', 'Surname'."))
        ELSE IF me # NoExc THEN ValidateAndMergeExcept(fs, lg5, rd, me)
        ELSE IF ~Contains(merged.columns, "In_LoveAdmin")
             THEN ValidateAndMergeExcept(fs, lg6, rd, KeyError("In_LoveAdmin"))
        ELSE IF ~Contains(merged.columns, "In_FA_Club_Portal")
             THEN ValidateAndMergeExcept(fs, lg6, rd, KeyError("In_FA_Club_Portal"))
        ELSE IF co.exc # NoExc THEN ValidateAndMergeExcept(fs, lg7, rd, co.exc)
        ELSE IF sel.exc # NoExc THEN ValidateAndMergeExcept(fs, lg7, rd, sel.exc)
        ELSE IF ~CanWrite(fs, output_path)
             THEN ValidateAndMergeExcept(fs, lg8, rd, WriteError(output_path))
        ELSE [fs |-> Written(fs, output_path, sel.df),
              log |-> Append(lg8, Info("Merge process completed successfully.")),
              reads |-> rd,
              writes |-> <<output_path>>,
              caught |-> NoExc,
              dialogs |-> <<showinfo("Success", "Merge completed successfully.")>>]

----------------------------------------------------------------------------
(* The spreadsheets on disk *)

Paths == {loveadmin_file, fa_club_portal_file, output_file}

Keys == {<<"Jo", "Fox">>, <<"Jo", "Lee">>, <<"Sam", "Lee">>}

KeySeqs(n) == SeqsUpTo(Keys, n)

TeamValues == <<"U7", "U8", "U9", "U10", "U11", "U12">>
MandateValues == <<"1", "0", "2", "3", "4", "5">>

\* header of the LoveAdmin export, header of the FA Club Portal report
SchemaPairs ==
    { <<(<<"First name", "Last name", "Team">>), (<<"First names", "Surname", "Active mandates">>)>>,
      <<(<<"First name", "Last name", "Team">>), (<<"First names", "Surname", "Team">>)>>,
      <<(<<"First name", "Last name">>), (<<"First names", "Surname">>)>>,
      <<(<<"First name", "Surname", "Team">>), (<<"First names", "Surname", "Active mandates">>)>>,
      <<(<<"First name", "Team">>), (<<"First names", "Surname", "Active mandates">>)>>,
      <<(<<"Last name", "Team">>), (<<"First names", "Surname", "Active mandates">>)>>,
      <<(<<"First name", "Last name", "Team">>), (<<"First names", "Active mandates">>)>>,
      <<(<<"First name", "Last name", "Team">>), (<<"Surname", "Active mandates">>)>>,
      <<(<<"First name", "Last name", "Team">>), (<<"First names", "Surname", "In_LoveAdmin">>)>>,
      <<(<<"First name", "Last name", "Surname">>), (<<"First names", "Surname", "Active mandates">>)>> }

CellFor(column, key, i) ==
    CASE column \in {"First name", "First names"} -> key[1]
      [] column \in {"Last name", "Surname"} -> key[2]
      [] column = "Team" -> TeamValues[i]
      [] column = "Active mandates" -> MandateValues[i]
      [] OTHER -> "Yes"

DataSheet(header, keys) ==
    <<header>> \o [i \in 1..Len(keys) |->
                     [c \in 1..Len(header) |-> CellFor(header[c], keys[i], i)]]

\* the report's leading rows, which are not data
Preamble(width) ==
    [r \in 1..SkipRows |->
        [c \in 1..width |-> IF c = 1 THEN "Registration Report" ELSE NaN]]

NoFile == [exists |-> FALSE, writable |-> TRUE, sheet |-> <<>>]

File(sheet) == [exists |-> TRUE, writable |-> TRUE, sheet |-> sheet]

LoveAdminFiles(header, n) ==
    {NoFile} \cup {File(DataSheet(header, ks)) : ks \in KeySeqs(n)}

FaClubPortalFiles(header, n) ==
    {NoFile} \cup {File(Preamble(Len(header)) \o DataSheet(header, ks)) : ks \in KeySeqs(n)}

RowsOnDisk(prog) == IF prog = "cli" THEN MaxRows ELSE MaxGuiRows

OutputFiles ==
    { NoFile,
      File(<<(<<"old">>)>>),
      [exists |-> FALSE, writable |-> FALSE, sheet |-> <<>>] }

OpenChoices == {"", loveadmin_file, fa_club_portal_file}
SaveChoices == {"", output_file}

----------------------------------------------------------------------------
(* State machine *)

Init ==
    /\ program \in {"cli", "gui"}
    /\ pc = IF program = "cli" THEN "start" ELSE "mainloop"
    /\ \E sp \in SchemaPairs :
         \E fa \in LoveAdminFiles(sp[1], RowsOnDisk(program)),
            fb \in FaClubPortalFiles(sp[2], RowsOnDisk(program)),
            fo \in OutputFiles :
            files = [p \in Paths |->
                        IF p = loveadmin_file THEN fa
                        ELSE IF p = fa_club_portal_file THEN fb ELSE fo]
    /\ loveadmin_file_var = ""
    /\ fa_club_portal_file_var = ""
    /\ output_file_var = ""
    /\ last = "init"
    /\ dialogs = <<>>
    /\ log = <<>>
    /\ reads = <<>>
    /\ writes = <<>>
    /\ caught = NoExc
    /\ raised = NoExc
    /\ exit_code = -1

\* loveadmin_fa_reconcile.py run as a script
Main ==
    /\ program = "cli"
    /\ pc = "start"
    /\ LET r == merge_datasets(files, loveadmin_file, fa_club_portal_file, output_file)
       IN  /\ files' = r.fs
           /\ log' = r.log
           /\ reads' = r.reads
           /\ writes' = r.writes
           /\ caught' = r.raised
           /\ raised' = r.raised
           /\ exit_code' = IF r.raised = NoExc THEN 0 ELSE 1
    /\ pc' = "exited"
    /\ last' = "merge_datasets"
    /\ dialogs' = <<>>
    /\ UNCHANGED <<program, loveadmin_file_var, fa_club_portal_file_var, output_file_var>>

select_loveadmin_file ==
    /\ program = "gui"
    /\ pc = "mainloop"
    /\ \E file_path \in OpenChoices : loveadmin_file_var' = file_path
    /\ last' = "select_loveadmin_file"
    /\ dialogs' = <<>>
    /\ log' = <<>>
    /\ reads' = <<>>
    /\ writes' = <<>>
    /\ caught' = NoExc
    /\ UNCHANGED <<program, pc, files, fa_club_portal_file_var, output_file_var,
                   raised, exit_code>>

\* the handler copied from select_loveadmin_file with its variable left in place
select_fa_club_portal_file_into_loveadmin ==
    /\ program = "gui"
    /\ pc = "mainloop"
    /\ \E file_path \in OpenChoices : loveadmin_file_var' = file_path
    /\ last' = "select_fa_club_portal_file"
    /\ dialogs' = <<>>
    /\ log' = <<>>
    /\ reads' = <<>>
    /\ writes' = <<>>
    /\ caught' = NoExc
    /\ UNCHANGED <<program, pc, files, fa_club_portal_file_var, output_file_var,
                   raised, exit_code>>

select_fa_club_portal_file ==
    /\ program = "gui"
    /\ pc = "mainloop"
    /\ \E file_path \in OpenChoices : fa_club_portal_file_var' = file_path
    /\ last' = "select_fa_club_portal_file"
    /\ dialogs' = <<>>
    /\ log' = <<>>
    /\ reads' = <<>>
    /\ writes' = <<>>
    /\ caught' = NoExc
    /\ UNCHANGED <<program, pc, files, loveadmin_file_var, output_file_var,
                   raised, exit_code>>

save_output_file ==
    /\ program = "gui"
    /\ pc = "mainloop"
    /\ \E file_path \in SaveChoices : output_file_var' = file_path
    /\ last' = "save_output_file"
    /\ dialogs' = <<>>
    /\ log' = <<>>
    /\ reads' = <<>>
    /\ writes' = <<>>
    /\ caught' = NoExc
    /\ UNCHANGED <<program, pc, files, loveadmin_file_var, fa_club_portal_file_var,
                   raised, exit_code>>

show_help ==
    /\ program = "gui"
    /\ pc = "mainloop"
    /\ last' = "show_help"
    /\ dialogs' = <<showinfo("Help", "For assistance, contact: mark@bacon.me.uk")>>
    /\ log' = <<>>
    /\ reads' = <<>>
    /\ writes' = <<>>
    /\ caught' = NoExc
    /\ UNCHANGED <<program, pc, files, loveadmin_file_var, fa_club_portal_file_var,
                   output_file_var, raised, exit_code>>

validate_and_merge ==
    /\ program = "gui"
    /\ pc = "mainloop"
    /\ LET r == ValidateAndMergeRun(files, loveadmin_file_var,
                                    fa_club_portal_file_var, output_file_var)
       IN  /\ files' = r.fs
           /\ log' = r.log
           /\ reads' = r.reads
           /\ writes' = r.writes
           /\ caught' = r.caught
           /\ dialogs' = r.dialogs
    /\ last' = "validate_and_merge"
    /\ UNCHANGED <<program, pc, loveadmin_file_var, fa_club_portal_file_var,
                   output_file_var, raised, exit_code>>

Next ==
    \/ Main
    \/ select_loveadmin_file
    \/ select_fa_club_portal_file
    \/ save_output_file
    \/ show_help
    \/ validate_and_merge

Spec == Init /\ [][Next]_vars

----------------------------------------------------------------------------
(* Properties of a reconcile run *)

MergeOps == {"merge_datasets", "validate_and_merge"}

\* the last operation was a reconcile run that wrote its output
Wrote == last \in MergeOps /\ writes # <<>>

\* source A as the run joined it (column names standardised), source B, and
\* the output read back from the path the run wrote
SourceA ==
    rename(read_excel(files, reads[1], 0).df,
           <<"Last name", "First name">>, <<"Surname", "First names">>)
SourceB == read_excel(files, reads[2], SkipRows).df
Output == read_excel(files, writes[1], 0).df

Cell(df, row, name) == row[IndexOf(df.columns, name)]

CountKey(df, k) == Len(RowsWithKey(df, MergeOn, k))

FlagsOf(df, row) == <<Cell(df, row, "In_LoveAdmin"), Cell(df, row, "In_FA_Club_Portal")>>

\* C1: in the output of a run, a row's In_LoveAdmin flag is true exactly when
\* its (First names, Surname) key occurs in source A, and its
\* In_FA_Club_Portal flag is true exactly when the key occurs in source B.
C1_FlagsTellPresence ==
    Wrote =>
        \A r \in 1..Len(Output.rows) :
            LET row == Output.rows[r]
                k == KeyOf(Output, row, MergeOn)
            IN  /\ (Cell(Output, row, "In_LoveAdmin") = TrueCell)
                        <=> (k \in KeysOf(SourceA, MergeOn))
                /\ (Cell(Output, row, "In_FA_Club_Portal") = TrueCell)
                        <=> (k \in KeysOf(SourceB, MergeOn))

\* a written output with a key only in A, a key only in B and a key in both
C1_Witness ==
    /\ Wrote
    /\ {FlagsOf(Output, Output.rows[r]) : r \in 1..Len(Output.rows)}
         = {<<TrueCell, FalseCell>>, <<FalseCell, TrueCell>>, <<TrueCell, TrueCell>>}

\* C2: every key has countA * countB output rows when it is in both sources,
\* countA when only in A, countB when only in B; the output has no other key.
C2_OuterJoinMultiplicity ==
    Wrote =>
        \A k \in Keys \cup KeysOf(Output, MergeOn) :
            LET a == CountKey(SourceA, k)
                b == CountKey(SourceB, k)
            IN  CountKey(Output, k) = IF a > 0 /\ b > 0 THEN a * b ELSE a + b

\* a key with two rows in A and two rows in B: four output rows
C2_Witness ==
    /\ Wrote
    /\ \E k \in Keys : CountKey(SourceA, k) = 2 /\ CountKey(SourceB, k) = 2
                       /\ CountKey(Output, k) = 4

\* C3: in a written output both flag cells of every row are true or false,
\* never empty.
C3_NoNullFlag ==
    Wrote =>
        \A r \in 1..Len(Output.rows) :
            /\ Cell(Output, Output.rows[r], "In_LoveAdmin") \in {TrueCell, FalseCell}
            /\ Cell(Output, Output.rows[r], "In_FA_Club_Portal") \in {TrueCell, FalseCell}

\* source A has no data row, source B has some: every output row had a missing flag
C3_Witness ==
    /\ Wrote
    /\ Len(SourceA.rows) = 0
    /\ Len(SourceB.rows) > 0
    /\ Len(Output.rows) = Len(SourceB.rows)

\* the run loaded both inputs
LoadedBoth ==
    /\ last \in MergeOps
    /\ Len(reads) = 2
    /\ read_excel(files, reads[1], 0).exc = NoExc
    /\ read_excel(files, reads[2], SkipRows).exc = NoExc

RawA == read_excel(files, reads[1], 0).df

LacksRequiredA == ~Contains(RawA.columns, "Last name") \/ ~Contains(RawA.columns, "First name")
LacksRequiredB == ~Contains(SourceB.columns, "First names") \/ ~Contains(SourceB.columns, "Surname")

SchemaErrorA ==
    Exc("ValueError",
        "LoveAdmin file does not contain required columns: 'Last name', 'First name'.")
SchemaErrorB ==
    Exc("ValueError",
        "FA Club Portal file does not contain required columns: 'First names', 'Surname'.")

\* C4: a run whose source A lacks "Last name" or "First name", or whose source
\* B lacks "First names" or "Surname", fails with an error naming the source
\* and the required columns, before the join and without writing the output,
\* in the command-line script and in the GUI alike.
C4_MissingColumnFails ==
    (LoadedBoth /\ (LacksRequiredA \/ LacksRequiredB)) =>
        /\ caught = IF LacksRequiredA THEN SchemaErrorA ELSE SchemaErrorB
        /\ ~Contains(log, Info("Merging datasets..."))
        /\ writes = <<>>

\* the run reached "Saving merged data to <path>..."
SaveReached(lg) == \E p \in Paths : Contains(lg, Info("Saving merged data to " \o p \o "..."))

\* C5: an operation that does not reach the save step leaves every file as it
\* was; an operation writes at most one path, once, and a changed disk means
\* the run wrote its output path and nothing failed.
C5_WriteIsLast ==
    [][/\ Len(writes') <= 1
       /\ ~SaveReached(log') => files' = files
       /\ files' # files =>
            /\ last' \in MergeOps
            /\ caught' = NoExc
            /\ \E p \in Paths : /\ writes' = <<p>>
                                /\ \A q \in Paths \ {p} : files'[q] = files[q]]_vars

\* a run failed before the save step and the output that existed is untouched
C5_Witness ==
    /\ last \in MergeOps
    /\ caught # NoExc
    /\ ~SaveReached(log)
    /\ files[output_file] = File(<<(<<"old">>)>>)

\* the columns the reordering is meant to give
ExpectedColumns(columns) ==
    SelectSeq(PreferredColumns, LAMBDA c : Contains(columns, c))
    \o SelectSeq(columns, LAMBDA c : ~Contains(PreferredColumns, c))

\* the joined table of the run, before the reordering
MergedColumns ==
    merge(SetColumn(SourceA, "In_LoveAdmin", TrueCell),
          SetColumn(SourceB, "In_FA_Club_Portal", TrueCell), MergeOn).columns

\* C6: a GUI run that reaches the reordering and can write its output path
\* writes the preferred columns the joined table has, in the preferred order,
\* then the other columns in their order, each once.
C6_ReorderedOutput ==
    (/\ last = "validate_and_merge"
     /\ Contains(log, Debug("Reordering columns..."))
     /\ CanWrite(files, output_file_var)) =>
        /\ writes = <<output_file_var>>
        /\ Output.columns = ExpectedColumns(MergedColumns)

\* C7: a GUI merge with the three paths set, both inputs readable and holding
\* their required columns, and a writable output path, writes the output and
\* shows the success dialog; every merge shows exactly one dialog, the
\* success dialog exactly when the output was written.
C7_MergeSucceeds ==
    last = "validate_and_merge" =>
        /\ Len(dialogs) = 1
        /\ (dialogs[1].kind = "showinfo") <=> (writes # <<>>)
        /\ (/\ LoadedBoth
            /\ ~LacksRequiredA
            /\ ~LacksRequiredB
            /\ CanWrite(files, output_file_var)) =>
                /\ writes = <<output_file_var>>
                /\ dialogs = <<showinfo("Success", "Merge completed successfully.")>>

\* the GUI merge returned at the empty-path check
EmptyPathCase ==
    /\ last = "validate_and_merge"
    /\ "" \in {loveadmin_file_var, fa_club_portal_file_var, output_file_var}

ErrorRecords(lg) == {i \in 1..Len(lg) : lg[i].level = "ERROR"}

\* C8: a run that wrote no output for another reason than an empty path has
\* logged exactly one error, as its last record and without the success
\* milestone; the command-line script raised the caught exception and exited
\* non-zero; the GUI showed the error in a dialog, raised nothing and is back
\* in the event loop, where validate_and_merge can run again.
C8_FailuresSurface ==
    (last \in MergeOps /\ writes = <<>> /\ ~EmptyPathCase) =>
        /\ caught # NoExc
        /\ ErrorRecords(log) = {Len(log)}
        /\ ~Contains(log, Info("Merge process completed successfully."))
        /\ program = "cli" =>
            /\ log[Len(log)] = Error("An error occurred during the merge process: "
                                      \o caught.msg)
            /\ raised = caught
            /\ exit_code = 1
            /\ pc = "exited"
        /\ program = "gui" =>
            /\ log[Len(log)] = Error("An error occurred: " \o caught.msg)
            /\ dialogs = <<showerror("Error", "An error occurred: " \o caught.msg)>>
            /\ raised = NoExc
            /\ exit_code = -1
            /\ pc = "mainloop"

\* the command-line run failed in to_excel
C8_Witness ==
    /\ last = "merge_datasets"
    /\ SaveReached(log)
    /\ raised = WriteError(output_file)
    /\ exit_code = 1

\* both inputs hold the same dataset once A's columns are standardised
SelfMerge == Wrote /\ SourceA = SourceB

AllFlagsTrue ==
    \A r \in 1..Len(Output.rows) :
        FlagsOf(Output, Output.rows[r]) = <<TrueCell, TrueCell>>

RECURSIVE SumOfSquares(_, _)
SumOfSquares(df, ks) ==
    IF ks = {} THEN 0
    ELSE LET k == CHOOSE k \in ks : TRUE
         IN  CountKey(df, k) * CountKey(df, k) + SumOfSquares(df, ks \ {k})

UniqueKeys(df) == \A k \in KeysOf(df, MergeOn) : CountKey(df, k) = 1

\* C9 as stated: merging A with itself gives both flags true in every row and
\* as many rows as A has.
C9_SelfMergeKeepsRowCount ==
    SelfMerge => (AllFlagsTrue /\ Len(Output.rows) = Len(SourceA.rows))

\* C9: merging A with itself gives both flags true in every row and, per key,
\* the square of the key's rows in A; as many rows as A when A's keys are unique.
C9_SelfMergeSquaresDuplicates ==
    SelfMerge =>
        /\ AllFlagsTrue
        /\ Len(Output.rows) = SumOfSquares(SourceA, KeysOf(SourceA, MergeOn))
        /\ UniqueKeys(SourceA) => Len(Output.rows) = Len(SourceA.rows)

\* A with one key twice, merged with itself: four rows
C9_Witness ==
    /\ SelfMerge
    /\ Len(SourceA.rows) = 2
    /\ ~UniqueKeys(SourceA)
    /\ Len(Output.rows) = 4

\* C10: a GUI merge with an empty path variable shows the "Please select all
\* required files." error and nothing else: no load, no write, no log record;
\* no operation ever loads from an empty path.
C10_EmptyPathRefused ==
    /\ \A i \in 1..Len(reads) : reads[i] # ""
    /\ EmptyPathCase =>
        /\ dialogs = <<showerror("Error", "Please select all required files.")>>
        /\ reads = <<>>
        /\ writes = <<>>
        /\ log = <<>>

\* Merge pressed with both inputs chosen and no output path
C10_Witness ==
    /\ last = "validate_and_merge"
    /\ loveadmin_file_var # ""
    /\ fa_club_portal_file_var # ""
    /\ output_file_var = ""
    /\ Len(dialogs) = 1

\* C11: a file-picker action sets its own path variable to the picker's
\* result (a chosen path, or the empty string on cancel) and leaves the other
\* two as they were; Merge and Help leave all three as they were.
C11_PickersChangeOwnPathOnly ==
    [][/\ last' = "select_loveadmin_file" =>
            /\ loveadmin_file_var' \in OpenChoices
            /\ fa_club_portal_file_var' = fa_club_portal_file_var
            /\ output_file_var' = output_file_var
       /\ last' = "select_fa_club_portal_file" =>
            /\ fa_club_portal_file_var' \in OpenChoices
            /\ loveadmin_file_var' = loveadmin_file_var
            /\ output_file_var' = output_file_var
       /\ last' = "save_output_file" =>
            /\ output_file_var' \in SaveChoices
            /\ loveadmin_file_var' = loveadmin_file_var
            /\ fa_club_portal_file_var' = fa_club_portal_file_var
       /\ last' \in {"validate_and_merge", "show_help"} =>
            /\ loveadmin_file_var' = loveadmin_file_var
            /\ fa_club_portal_file_var' = fa_club_portal_file_var
            /\ output_file_var' = output_file_var]_vars

\* the FA Club Portal picker was cancelled while the other two paths stay chosen
C11_Witness ==
    /\ last = "select_fa_club_portal_file"
    /\ fa_club_portal_file_var = ""
    /\ loveadmin_file_var # ""
    /\ output_file_var # ""

====
